---- MODULE Spec2Model ----
(***************************************************************************)
(* Model of src/app.py: the MedAI Flask backend.                           *)
(*                                                                         *)
(* Startup (module import) reads the credential and walks the candidate    *)
(* model list; afterwards the process serves requests.  Each request       *)
(* handler is one action; the provider (google.generativeai) and the       *)
(* JSON body parser of the framework are the environment, and their        *)
(* outcomes are drawn nondeterministically.                                *)
(***************************************************************************)
EXTENDS Integers, Sequences, FiniteSets, TLC

(* ---------------------------- bounds ----------------------------------- *)
MaxLen == 2        \* longest "message" string in a request body

(* --------------------------- vocabulary -------------------------------- *)
None == "None"

\* app.py:41, the candidate identifiers in source order
Candidates == <<"gemini-2.0-flash-exp", "gemini-1.5-pro", "gemini-1.5-flash", "gemini-pro">>

CandidateSet == {Candidates[i] : i \in 1..Len(Candidates)}

\* characters a message is made of; the first two are whitespace to str.strip()
Whitespace == {" ", "\t"}
Chars == Whitespace \cup {"a"}

RECURSIVE StringsOfLen(_)
StringsOfLen(n) ==
    IF n = 0 THEN {<<>>}
    ELSE {<<c>> \o s : c \in Chars, s \in StringsOfLen(n - 1)}

StringsUpTo(n) == UNION {StringsOfLen(k) : k \in 0..n}

\* request bodies of a POST/OPTIONS to /api/ai-doctor
\*   nobody        no body and no JSON content type
\*   emptyjson     Content-Type: application/json with a zero-length body
\*   invalid       Content-Type: application/json, body is not JSON
\*   null, emptyobj, emptylist, zero   JSON values that are falsy in Python
\*   list, scalar  truthy JSON values that are not objects
\*   obj_other     an object with keys, "message" not among them
\*   obj_msgnull   {"message": null};  obj_msgnum  {"message": 5}
\*   obj_msg       {"message": <string>}
PlainKinds == {"nobody", "emptyjson", "invalid", "null", "emptyobj", "emptylist",
               "zero", "list", "scalar", "obj_other", "obj_msgnull", "obj_msgnum"}

Bodies == {[kind |-> k, msg |-> <<>>] : k \in PlainKinds}
          \cup {[kind |-> "obj_msg", msg |-> s] : s \in StringsUpTo(MaxLen)}

\* what model.generate_content / response.text can do
\*   text        returns a response whose .text is the given string ("" included)
\*   no_text     returns a response whose .text is None or missing
\*   raise       generate_content raises
\*   text_raise  generate_content returns, reading .text raises (blocked reply)
Texts == {<<>>, <<" ">>, <<"a">>}

ProviderOutcomes ==
    {[kind |-> "text", text |-> t] : t \in Texts}
    \cup {[kind |-> k, text |-> <<>>] : k \in {"no_text", "raise", "text_raise"}}

NoOutcome == [kind |-> "unused", text |-> <<>>]
NoBody == [kind |-> "nobody", msg |-> <<>>]

VARIABLES
    GEMINI_API_KEY,   \* app.py:32  None or the credential
    available,        \* the candidates genai.GenerativeModel accepts in this run
    strictMime,       \* whether the installed Flask's request.get_json() raises on a
                      \* request without a JSON content type (it returns None otherwise)
    pc,               \* "startup" while the module body runs, then "serving"
    idx,              \* position of the for loop of app.py:41
    attempts,         \* candidates passed to genai.GenerativeModel so far
    model,            \* app.py:39  the module-level selected model
    last,             \* the last request and its reply
    sawFailure        \* some earlier /api/ai-doctor request was answered 500

vars == <<GEMINI_API_KEY, available, strictMime, pc, idx, attempts, model,
          last, sawFailure>>

(* ------------------------- pure helpers -------------------------------- *)
RECURSIVE lstrip(_)
lstrip(s) ==
    IF s = <<>> THEN s
    ELSE IF Head(s) \in Whitespace THEN lstrip(Tail(s)) ELSE s

RECURSIVE rstrip(_)
rstrip(s) ==
    IF s = <<>> THEN s
    ELSE IF s[Len(s)] \in Whitespace THEN rstrip(SubSeq(s, 1, Len(s) - 1)) ELSE s

strip_noop(s) == s

\* str.strip() of app.py:112
strip(s) == rstrip(lstrip(s))

\* a reply: HTTP status, JSON payload (key -> value), whether the handler
\* added the explicit CORS headers, and how often it called the provider
Reply(status, json, cors, calls) ==
    [status |-> status, json |-> json, cors |-> cors, calls |-> calls]

NOW == "isoformat"

\* request.get_json() of app.py:108: "raise" or the parsed kind of data
get_json(body, strict) ==
    CASE body.kind = "nobody" -> IF strict THEN "raise" ELSE "null"
      [] body.kind \in {"emptyjson", "invalid"} -> "raise"
      [] OTHER -> body.kind

\* str(e) of the exception request.get_json() raises (app.py:108, 149):
\* 415 for a request without a JSON content type, 400 for a body that
\* does not parse
json_error(body) ==
    IF body.kind = "nobody" THEN "415 Unsupported Media Type" ELSE "400 Bad Request"

\* Python truthiness of the parsed data (app.py:109)
Truthy(data) == data \notin {"null", "emptyobj", "emptylist", "zero"}


\* getattr(model, "model_name", ...) of app.py:65: the client library
\* stores the identifier under the "models/" prefix
model_name_of(m) == "models/" \o m

(* ------------------------------ startup -------------------------------- *)
Init ==
    /\ GEMINI_API_KEY \in {None, "key"}
    /\ available \in SUBSET CandidateSet
    /\ strictMime \in BOOLEAN
    /\ pc = "startup"
    /\ idx = 1
    /\ attempts = <<>>
    /\ model = None
    /\ last = [route |-> "none", method |-> "none", body |-> NoBody,
               outcome |-> NoOutcome, reply |-> Reply(0, <<>>, FALSE, 0)]
    /\ sawFailure = FALSE

\* a variant of the loop body that forgets the break of app.py:46
TryModel_nobreak ==
    /\ pc = "startup"
    /\ idx <= Len(Candidates)
    /\ attempts' = Append(attempts, Candidates[idx])
    /\ model' = IF Candidates[idx] \in available THEN Candidates[idx] ELSE model
    /\ idx' = idx + 1
    /\ pc' = IF idx = Len(Candidates) THEN "serving" ELSE "startup"
    /\ UNCHANGED <<GEMINI_API_KEY, available, strictMime, last, sawFailure>>

\* one iteration of the for loop of app.py:41-48, with the loop exit of
\* app.py:46 (break) and app.py:49 (list exhausted)
TryModel ==
    /\ pc = "startup"
    /\ idx <= Len(Candidates)
    /\ attempts' = Append(attempts, Candidates[idx])
    /\ IF Candidates[idx] \in available
       THEN /\ model' = Candidates[idx]
            /\ idx' = idx
            /\ pc' = "serving"
       ELSE /\ model' = model
            /\ idx' = idx + 1
            /\ pc' = IF idx = Len(Candidates) THEN "serving" ELSE "startup"
    /\ UNCHANGED <<GEMINI_API_KEY, available, strictMime, last, sawFailure>>

(* ------------------------------ handlers ------------------------------- *)
health_check_unavailable(m, key) ==
    IF m # None
    THEN Reply(200, [k \in {"status", "timestamp", "gemini_configured", "model"} |->
                      CASE k = "status" -> "ok"
                        [] k = "timestamp" -> NOW
                        [] k = "gemini_configured" -> (key # None)
                        [] OTHER -> model_name_of(m)], FALSE, 0)
    ELSE Reply(503, [k \in {"status", "timestamp", "gemini_configured"} |->
                      CASE k = "status" -> "error"
                        [] k = "timestamp" -> NOW
                        [] OTHER -> (key # None)], FALSE, 0)

\* app.py:60-73
health_check(m, key) ==
    Reply(200, [k \in {"status", "timestamp", "gemini_configured", "model"} |->
                 CASE k = "status" -> "ok"
                   [] k = "timestamp" -> NOW
                   [] k = "gemini_configured" -> (key # None)
                   [] OTHER -> IF m # None THEN model_name_of(m) ELSE "Unknown"],
          FALSE, 0)

\* app.py:81-86
preflight_reply == Reply(200, [k \in {"status"} |-> "CORS preflight OK"], TRUE, 0)

\* app.py:110
no_json_reply == Reply(400, [k \in {"error"} |-> "No JSON data provided"], FALSE, 0)

\* app.py:114
empty_message_reply == Reply(400, [k \in {"error"} |-> "Message cannot be empty"], FALSE, 0)

no_model_reply_bare == Reply(500, [k \in {"error"} |-> "AI model not initialized."], FALSE, 0)

\* app.py:117
no_model_reply ==
    Reply(500, [k \in {"error", "success"} |->
                 IF k = "error" THEN "AI model not initialized." ELSE FALSE], FALSE, 0)

\* app.py:146-154, the except branch; exc is str(e), calls the provider calls
\* made before the exception reached it
server_error(exc, calls) ==
    Reply(500, [k \in {"error", "success"} |->
                 IF k = "error" THEN "Server error: " \o exc ELSE FALSE], TRUE, calls)

\* app.py:132-136
success_reply(text) ==
    Reply(200, [k \in {"success", "response", "timestamp"} |->
                 CASE k = "success" -> TRUE
                   [] k = "response" -> text
                   [] OTHER -> NOW], TRUE, 1)

empty_reply_both ==
    Reply(200, [k \in {"success", "error", "response"} |->
                 CASE k = "success" -> FALSE
                   [] k = "error" -> "Empty response from AI model."
                   [] OTHER -> <<>>], TRUE, 1)

\* app.py:138-141
empty_reply ==
    Reply(200, [k \in {"success", "error"} |->
                 IF k = "success" THEN FALSE ELSE "Empty response from AI model."], TRUE, 1)

generate_retry(outcome) ==
    CASE outcome.kind \in {"raise", "text_raise"} -> server_error("provider", 2)
      [] outcome.kind = "text" /\ outcome.text # <<>> -> success_reply(outcome.text)
      [] OTHER -> [empty_reply EXCEPT !.calls = 2]

generate_empty_is_error(outcome) ==
    CASE outcome.kind \in {"raise", "text_raise"} -> server_error("provider", 1)
      [] outcome.kind = "text" /\ outcome.text # <<>> -> success_reply(outcome.text)
      [] OTHER -> [empty_reply EXCEPT !.status = 500]

\* app.py:123-144: the single model.generate_content call and the reply
\* shaped from its outcome; an exception lands in the except branch
generate(outcome) ==
    CASE outcome.kind \in {"raise", "text_raise"} -> server_error("provider", 1)
      [] outcome.kind = "text" /\ outcome.text # <<>> -> success_reply(outcome.text)
      [] OTHER -> empty_reply

\* app.py:107-154, the POST path
post(body, m, outcome, strict) ==
    LET data == get_json(body, strict) IN
    IF data = "raise" THEN server_error(json_error(body), 0)
    ELSE IF ~Truthy(data) THEN no_json_reply
    ELSE IF data \in {"list", "scalar", "obj_msgnull", "obj_msgnum"}
         THEN server_error("AttributeError", 0)
    ELSE LET user_input == strip(IF data = "obj_msg" THEN body.msg ELSE <<>>) IN
         IF user_input = <<>> THEN empty_message_reply
         ELSE IF m = None THEN no_model_reply
         ELSE generate(outcome)

ai_doctor_late_preflight(method, body, m, outcome, strict) ==
    LET r == post(body, m, outcome, strict) IN
    IF r.status = 400 THEN r
    ELSE IF method = "OPTIONS" THEN preflight_reply ELSE r

\* app.py:76-154
ai_doctor(method, body, m, outcome, strict) ==
    IF method = "OPTIONS" THEN preflight_reply
    ELSE post(body, m, outcome, strict)

\* app.py:158-166; ratings are in tenths
get_specialists ==
    Reply(200, [k \in {"success", "specialists"} |->
                 IF k = "success" THEN TRUE
                 ELSE << [id |-> 1, specialty |-> "Cardiology", rating |-> 48],
                         [id |-> 2, specialty |-> "Dermatology", rating |-> 47],
                         [id |-> 3, specialty |-> "Neurology", rating |-> 49],
                         [id |-> 4, specialty |-> "Pediatrics", rating |-> 46],
                         [id |-> 5, specialty |-> "Orthopedics", rating |-> 48] >>],
          FALSE, 0)

\* app.py:170-178
get_health_tips ==
    Reply(200, [k \in {"success", "tips"} |->
                 IF k = "success" THEN TRUE
                 ELSE << "Stay hydrated", "Exercise regularly", "Sleep 7-9 hours",
                         "Eat fruits and vegetables", "Practice stress management" >>],
          FALSE, 0)

\* app.py:181-183
not_found == Reply(404, [k \in {"error"} |-> "Endpoint not found"], FALSE, 0)

(* ------------------------------ requests ------------------------------- *)
\* the provider produces an outcome only for a request that reaches
\* model.generate_content (app.py:123); other requests have none
OutcomesFor(method, body, m, strict) ==
    IF ai_doctor(method, body, m, NoOutcome, strict).calls > 0
    THEN ProviderOutcomes
    ELSE {NoOutcome}

Serve(route, method, body, outcome, reply) ==
    /\ pc = "serving"
    /\ last' = [route |-> route, method |-> method, body |-> body,
                outcome |-> outcome,
                reply |-> reply]
    /\ sawFailure' = (sawFailure \/ (last.route = "/api/ai-doctor" /\ last.reply.status = 500))
    /\ UNCHANGED <<GEMINI_API_KEY, available, strictMime, pc, idx, attempts>>

HealthCheck ==
    /\ Serve("/api/health", "GET", NoBody, NoOutcome, health_check(model, GEMINI_API_KEY))
    /\ UNCHANGED model

AiDoctor_reprobe ==
    \E method \in {"POST", "OPTIONS"}, body \in Bodies :
      \E outcome \in OutcomesFor(method, body, model, strictMime) :
        LET r == ai_doctor(method, body, model, outcome, strictMime) IN
        /\ Serve("/api/ai-doctor", method, body, outcome, r)
        /\ model' = IF r.status = 500 THEN None ELSE model

AiDoctor ==
    \E method \in {"POST", "OPTIONS"}, body \in Bodies :
      \E outcome \in OutcomesFor(method, body, model, strictMime) :
        /\ Serve("/api/ai-doctor", method, body, outcome,
                 ai_doctor(method, body, model, outcome, strictMime))
        /\ UNCHANGED model

GetSpecialists ==
    /\ Serve("/api/specialists", "GET", NoBody, NoOutcome, get_specialists)
    /\ UNCHANGED model

GetHealthTips ==
    /\ Serve("/api/health-tips", "GET", NoBody, NoOutcome, get_health_tips)
    /\ UNCHANGED model

NotFound ==
    /\ Serve("unknown", "GET", NoBody, NoOutcome, not_found)
    /\ UNCHANGED model

Next ==
    \/ TryModel
    \/ HealthCheck
    \/ AiDoctor
    \/ GetSpecialists
    \/ GetHealthTips
    \/ NotFound

Spec == Init /\ [][Next]_vars


(* ------------------------------- claims -------------------------------- *)
IsAiDoctor == last.route = "/api/ai-doctor"
IsPost == IsAiDoctor /\ last.method = "POST"
Keys == DOMAIN last.reply.json

\* a string made of whitespace only (the empty string included)
Blank(s) == \A i \in 1..Len(s) : s[i] \in Whitespace

\* a JSON object whose "message" is a string with a non-whitespace character
ValidMessage(b) == b.kind = "obj_msg" /\ ~Blank(b.msg)

\* C1: a POST to /api/ai-doctor with no body or an unparsable body is
\* answered 400, whatever the startup outcome, and the provider is not called.
C1_BadBodyIs400 ==
    (IsPost /\ last.body.kind \in {"nobody", "emptyjson", "invalid"})
        => (last.reply.status = 400 /\ last.reply.calls = 0)

\* C2: a POST whose JSON body has a message that is empty after trimming
\* ("", whitespace only, or no message field) is answered 400, with or
\* without a model.
C2_EmptyMessageIs400 ==
    (IsPost /\ \/ (last.body.kind = "obj_msg" /\ Blank(last.body.msg))
               \/ last.body.kind \in {"obj_other", "emptyobj"})
        => last.reply.status = 400

C2_Witness ==
    /\ IsPost
    /\ last.body.kind = "obj_msg"
    /\ Len(last.body.msg) = MaxLen
    /\ Blank(last.body.msg)
    /\ model = None
    /\ last.reply.status = 400

\* C3: with no model selected at startup, a POST with a valid non-empty
\* message is answered 500 with success=false and the provider is not called.
C3_NoModelIs500 ==
    (IsPost /\ ValidMessage(last.body) /\ model = None)
        => /\ last.reply.status = 500
           /\ "success" \in Keys
           /\ last.reply.json["success"] = FALSE
           /\ last.reply.calls = 0

C3_Witness ==
    /\ IsPost
    /\ ValidMessage(last.body)
    /\ model = None
    /\ available = {}
    /\ last.reply.status = 500

\* C4: for a validated POST with a model selected the reply follows the
\* provider outcome: non-empty text -> 200, success=true, the text, a
\* timestamp; empty or missing text -> 200, success=false, an error; an
\* exception -> 500, success=false; no other (status, success) pair occurs.
C4_ReplyFollowsProvider ==
    (IsPost /\ ValidMessage(last.body) /\ model # None)
        => LET o == last.outcome
               r == last.reply
           IN /\ "success" \in Keys
              /\ (o.kind = "text" /\ o.text # <<>>)
                    => /\ r.status = 200
                       /\ r.json["success"] = TRUE
                       /\ "response" \in Keys
                       /\ r.json["response"] = o.text
                       /\ "timestamp" \in Keys
              /\ (o.kind = "no_text" \/ (o.kind = "text" /\ o.text = <<>>))
                    => /\ r.status = 200
                       /\ r.json["success"] = FALSE
                       /\ "error" \in Keys
              /\ o.kind \in {"raise", "text_raise"}
                    => /\ r.status = 500
                       /\ r.json["success"] = FALSE
              /\ o.kind \in {"text", "no_text", "raise", "text_raise"}
              /\ <<r.status, r.json["success"]>> \in {<<200, TRUE>>, <<200, FALSE>>, <<500, FALSE>>}

C4_Witness ==
    /\ IsPost
    /\ ValidMessage(last.body)
    /\ model # None
    /\ last.outcome.kind = "text"
    /\ last.outcome.text = <<>>
    /\ last.reply.status = 200
    /\ sawFailure

\* C5: startup tries the candidates in list order, each at most once, and
\* stops at the first success: the selected model is the first candidate the
\* library accepts, nothing after it is tried, and it is None when all fail.
C5_FirstAvailableWins ==
    /\ Len(attempts) <= Len(Candidates)
    /\ \A i \in 1..Len(attempts) : attempts[i] = Candidates[i]
    /\ pc = "serving"
         => LET ok == {i \in 1..Len(Candidates) : Candidates[i] \in available} IN
            IF ok = {}
            THEN model = None /\ attempts = Candidates
            ELSE LET first == CHOOSE i \in ok : \A j \in ok : i <= j IN
                 model = Candidates[first] /\ Len(attempts) = first

C5_Witness ==
    /\ pc = "serving"
    /\ model = "gemini-1.5-pro"
    /\ available = {"gemini-1.5-pro", "gemini-pro"}
    /\ attempts = <<"gemini-2.0-flash-exp", "gemini-1.5-pro">>

\* C6: once startup is over no step changes the selected model: every
\* request handler leaves it as startup set it.
C6_ModelFrozen == [][pc = "serving" => model' = model]_vars

C6_Witness ==
    /\ pc = "serving"
    /\ sawFailure
    /\ IsPost
    /\ last.outcome.kind = "raise"
    /\ last.reply.status = 500
    /\ model = "gemini-2.0-flash-exp"

\* C7: one request to /api/ai-doctor calls the provider exactly once when it
\* is a POST with a non-empty trimmed message and a model is selected, and
\* not at all otherwise; an exception or empty output is not retried.
C7_AtMostOneProviderCall ==
    IsAiDoctor
        => last.reply.calls =
             IF last.method = "POST" /\ ValidMessage(last.body) /\ model # None
             THEN 1 ELSE 0

C7_Witness ==
    /\ IsPost
    /\ ValidMessage(last.body)
    /\ last.outcome.kind \in {"raise", "text_raise"}
    /\ last.reply.calls = 1

\* C8: an OPTIONS request to /api/ai-doctor is answered 200 with the fixed
\* acknowledgment whatever the body and the model, and calls no provider.
C8_PreflightOk ==
    (IsAiDoctor /\ last.method = "OPTIONS")
        => /\ last.reply.status = 200
           /\ Keys = {"status"}
           /\ last.reply.json["status"] = "CORS preflight OK"
           /\ last.reply.calls = 0

C8_Witness ==
    /\ IsAiDoctor
    /\ last.method = "OPTIONS"
    /\ last.body.kind = "null"
    /\ model = None
    /\ last.reply.status = 200

\* C9: GET /api/health answers 200 with status, timestamp, gemini_configured
\* and model in every state; model is "Unknown" when none was selected.
C9_HealthAlways200 ==
    last.route = "/api/health"
        => /\ last.reply.status = 200
           /\ Keys = {"status", "timestamp", "gemini_configured", "model"}
           /\ last.reply.json["gemini_configured"] = (GEMINI_API_KEY # None)
           /\ (model = None) = (last.reply.json["model"] = "Unknown")

C9_Witness ==
    /\ last.route = "/api/health"
    /\ model = None
    /\ GEMINI_API_KEY = None
    /\ sawFailure
    /\ last.reply.json["model"] = "Unknown"

\* C10 as stated: every reply to a POST on /api/ai-doctor carries success,
\* a timestamp and exactly one of response and error.
C10_UniformShape ==
    IsPost
        => /\ {"success", "timestamp"} \subseteq Keys
           /\ ("response" \in Keys) # ("error" \in Keys)

\* C10 amended: every reply to a POST on /api/ai-doctor carries exactly one
\* of response and error; response comes with success=true and a timestamp
\* on a 200, and only then is there a timestamp; the success flag is present
\* on every reply except the 400 validation replies, which carry error alone.
C10_ShapeByPath ==
    IsPost
        => /\ ("response" \in Keys) # ("error" \in Keys)
           /\ Keys \subseteq {"success", "response", "error", "timestamp"}
           /\ ("timestamp" \in Keys) = ("response" \in Keys)
           /\ "response" \in Keys
                => (last.reply.status = 200 /\ last.reply.json["success"] = TRUE)
           /\ ("success" \in Keys) = (last.reply.status # 400)
           /\ "error" \in Keys /\ "success" \in Keys
                => last.reply.json["success"] = FALSE

C10_Witness ==
    /\ IsPost
    /\ last.reply.status = 200
    /\ last.outcome.kind = "no_text"
    /\ Keys = {"success", "error"}

====
